---- MODULE Spec2Model ----
(***************************************************************************)
(* A model of anago/data/preprocess.py: the WordPreprocessor estimator     *)
(* (fit / transform / inverse_transform), the word processor returned by   *)
(* get_processing_word, the padding helpers, the vocabulary files and the  *)
(* embedding loader.                                                       *)
(*                                                                         *)
(* A Python string is a sequence of characters; a character is a one-      *)
(* character string, so a character used as a dict key is a sequence of    *)
(* length 1.  A Python dict is a function from its keys to its values.     *)
(* The value None of a vocabulary is the empty function: after fit the     *)
(* word vocabulary always holds UNK, so it is empty only before fit.       *)
(***************************************************************************)
EXTENDS Integers, Sequences, FiniteSets, TLC

VARIABLES
  lowercase,     \* WordPreprocessor.lowercase
  num_norm,      \* WordPreprocessor.num_norm
  char_feature,  \* WordPreprocessor.char_feature
  vocab_init,    \* WordPreprocessor.vocab_init (its keys)
  vocab_word,    \* WordPreprocessor.vocab_word
  vocab_char,    \* WordPreprocessor.vocab_char
  vocab_tag,     \* WordPreprocessor.vocab_tag
  last           \* the last call: its name, its arguments and what it returned

config == <<lowercase, num_norm, char_feature, vocab_init>>
vocabs == <<vocab_word, vocab_char, vocab_tag>>
vars == <<lowercase, num_norm, char_feature, vocab_init, vocab_word, vocab_char, vocab_tag, last>>

---------------------------------------------------------------------------
(* Bounds *)

\* the number of words of a corpus (all its sentences together)
MaxTokens == 2

---------------------------------------------------------------------------
(* Strings and dicts *)

\* the reserved tokens, imported from anago.data.reader and anago.data_utils
UNK == <<"<", "U", ">">>
PAD == <<"<", "P", ">">>
NUM == <<"$", "N", "$">>

\* the characters "1" and "F1" (the full-width digit one) are digits, as is "0"
Digits == {"0", "1", "F1"}

\* str.lower on one character
LowerChar(c) == CASE c = "A" -> "a" [] c = "U" -> "u" [] c = "P" -> "p" [] c = "N" -> "n" [] OTHER -> c

\* str.lower
Lower(w) == [i \in 1..Len(w) |-> LowerChar(w[i])]

\* re.sub(r'[0-9<full-width digits>]', r'0', word)
digit_to_zero(w) == [i \in 1..Len(w) |-> IF w[i] \in Digits THEN "0" ELSE w[i]]

None == <<>>
IsNone(d) == DOMAIN d = {}

Size(d) == Cardinality(DOMAIN d)
Put(d, k, v) == [x \in (DOMAIN d) \cup {k} |-> IF x = k THEN v ELSE d[x]]
Values(d) == {d[k] : k \in DOMAIN d}

\* every iteration order of a set
RECURSIVE Perms(_)
Perms(S) == IF S = {} THEN {<<>>} ELSE UNION {{<<x>> \o p : p \in Perms(S \ {x})} : x \in S}

RECURSIVE Flatten(_)
Flatten(ss) == IF ss = <<>> THEN <<>> ELSE Head(ss) \o Flatten(Tail(ss))

Elems(s) == {s[i] : i \in 1..Len(s)}

---------------------------------------------------------------------------
(* WordPreprocessor *)

\* _lower and _normalize_num, given self.lowercase and self.num_norm
_lower(lc, word) == IF lc THEN Lower(word) ELSE word

_normalize_num(nn, word) == IF nn THEN digit_to_zero(word) ELSE word

\* lines 209-210 and 236-237: the word as the vocabulary holds it
Normalized(lc, nn, word) == _normalize_num(nn, _lower(lc, word))

\* fit, lines 211-212: a new word gets the next index
FitAddWordNoGuard(words, w) == Put(words, w, Size(words))
FitAddWord(words, w) == IF w \in DOMAIN words THEN words ELSE Put(words, w, Size(words))

\* fit, lines 216-218: the characters of w
RECURSIVE FitAddChars(_, _)
FitAddChars(chars, w) ==
  IF w = <<>> THEN chars
  ELSE LET c == <<Head(w)>>
       IN FitAddChars(IF c \in DOMAIN chars THEN chars ELSE Put(chars, c, Size(chars)), Tail(w))

\* fit, lines 208-218, over the words in the order the set yields them, given
\* self.lowercase, self.num_norm and self.char_feature
RECURSIVE FitLoop(_, _, _, _, _, _)
FitLoop(lc, nn, cf, order, words, chars) ==
  IF order = <<>> THEN [words |-> words, chars |-> chars]
  ELSE LET w == Normalized(lc, nn, Head(order))
       IN FitLoop(lc, nn, cf, Tail(order), FitAddWord(words, w),
                  IF cf THEN FitAddChars(chars, w) ELSE chars)

\* fit, lines 204-205: both vocabularies start from UNK alone
FitWords(lc, nn, cf, order) == FitLoop(lc, nn, cf, order, UNK :> 0, UNK :> 0)

\* fit, lines 220-222
RECURSIVE FitTagsLoop(_, _)
FitTagsLoop(ts, tags) ==
  IF ts = <<>> THEN tags
  ELSE FitTagsLoop(Tail(ts), IF Head(ts) \in DOMAIN tags THEN tags ELSE Put(tags, Head(ts), Size(tags)))

\* fit, line 206: the tag vocabulary starts empty
FitTagsKeep(y) == FitTagsLoop(Flatten(y), vocab_tag)
FitTags(y) == FitTagsLoop(Flatten(y), <<>>)

\* _get_char_ids
_get_char_ids(word) ==
  [i \in 1..Len(word) |-> IF <<word[i]>> \in DOMAIN vocab_char THEN vocab_char[<<word[i]>>] ELSE vocab_char[UNK]]

\* transform, lines 236-241: one word's id
TransformWordId(w0) ==
  LET w == Normalized(lowercase, num_norm, w0)
  IN IF w \in DOMAIN vocab_word THEN vocab_word[w] ELSE vocab_word[UNK]

\* transform, lines 232-251: one sentence
TransformSent(sent) ==
  LET word_ids == [i \in 1..Len(sent) |-> TransformWordId(sent[i])]
      char_word_ids == [i \in 1..Len(sent) |-> _get_char_ids(Normalized(lowercase, num_norm, sent[i]))]
  IN IF char_feature THEN <<char_word_ids, word_ids>> ELSE word_ids

\* transform raises when a lookup fails: any lookup in a vocabulary that is still
\* None, or a tag that is no key of vocab_tag (line 253)
TransformRaises(X, y) ==
  \/ IsNone(vocab_word) /\ (Flatten(X) # <<>> \/ Flatten(y) # <<>>)
  \/ \E t \in Elems(Flatten(y)) : t \notin DOMAIN vocab_tag

TransformTags(y) == [k \in 1..Len(y) |-> [i \in 1..Len(y[k]) |-> vocab_tag[y[k][i]]]]

\* inverse_transform, line 258: the vocabulary inverted.  fit's tag indices are
\* distinct, so each index has one tag
IndiceTagOffByOne == [i \in {v + 1 : v \in Values(vocab_tag)} |-> CHOOSE t \in DOMAIN vocab_tag : vocab_tag[t] = i - 1]
IndiceTag == [i \in Values(vocab_tag) |-> CHOOSE t \in DOMAIN vocab_tag : vocab_tag[t] = i]

InverseRaises(ids) ==
  \/ IsNone(vocab_word)
  \/ \E i \in 1..Len(ids) : ids[i] \notin DOMAIN IndiceTag

inverse_transform(ids) == [i \in 1..Len(ids) |-> IndiceTag[ids[i]]]

---------------------------------------------------------------------------
(* The inputs of the WordPreprocessor *)

W1 == <<"A", "1">>
W2 == <<"a", "0">>

\* a token of a corpus: a word and its tag
Tokens == {<<W1, "B">>, <<W2, "O">>}

Sents == UNION {[1..n -> Tokens] : n \in 1..MaxTokens}

\* the lists of non-empty sentences of at most n words in all
RECURSIVE CorporaOf(_)
CorporaOf(n) == {<<>>} \cup UNION {{<<s>> \o c : c \in CorporaOf(n - Len(s))} : s \in {t \in Sents : Len(t) <= n}}

Corpora == CorporaOf(MaxTokens)

XOf(c) == [k \in 1..Len(c) |-> [i \in 1..Len(c[k]) |-> c[k][i][1]]]
YOf(c) == [k \in 1..Len(c) |-> [i \in 1..Len(c[k]) |-> c[k][i][2]]]

\* inverse_transform is handed a tag-id list the last transform returned, or a
\* single id; the largest exceeds every tag index
IdLists ==
  {<<i>> : i \in 0..Cardinality({t[2] : t \in Tokens})}
    \cup (IF last.op = "transform" /\ ~last.raised THEN Elems(last.tags) ELSE {})

\* what the corpora and the iteration orders are, worked out once
CorpusX == [c \in Corpora |-> XOf(c)]
CorpusY == [c \in Corpora |-> YOf(c)]
CorpusWords == [c \in Corpora |-> Elems(Flatten(XOf(c)))]
Orders == [S \in SUBSET {W1, W2} |-> Perms(S)]

Idle == [op |-> "init"]

InitWP ==
  /\ lowercase \in BOOLEAN
  /\ num_norm \in BOOLEAN
  /\ char_feature \in BOOLEAN
  /\ vocab_init \in {{}, {W1}}
  /\ vocab_word = None
  /\ vocab_char = None
  /\ vocab_tag = None
  /\ last = Idle

Fit ==
  \E c \in Corpora :
    \E order \in Orders[CorpusWords[c] \cup vocab_init] :
      LET r == FitWords(lowercase, num_norm, char_feature, order)
      IN /\ vocab_word' = r.words
         /\ vocab_char' = r.chars
         /\ vocab_tag' = FitTags(CorpusY[c])
         /\ last' = [op |-> "fit", X |-> CorpusX[c], y |-> CorpusY[c]]
         /\ UNCHANGED config

\* transform is handed a corpus with its labels or, to predict, without any
Transform ==
  \E c \in Corpora, labelled \in BOOLEAN :
    LET X == CorpusX[c]
        y == IF labelled THEN CorpusY[c] ELSE <<>>
    IN /\ last' = IF TransformRaises(X, y)
                  THEN [op |-> "transform", X |-> X, y |-> y, raised |-> TRUE]
                  ELSE [op |-> "transform", X |-> X, y |-> y, raised |-> FALSE,
                        sents |-> [k \in 1..Len(X) |-> TransformSent(X[k])],
                        tags |-> TransformTags(y)]
       /\ UNCHANGED <<config, vocabs>>

InverseTransform ==
  \E ids \in IdLists :
    /\ last' = IF InverseRaises(ids)
               THEN [op |-> "inverse_transform", y |-> ids, raised |-> TRUE]
               ELSE [op |-> "inverse_transform", y |-> ids, raised |-> FALSE,
                     tags |-> inverse_transform(ids)]
    /\ UNCHANGED <<config, vocabs>>

Next == Fit \/ Transform \/ InverseTransform

Spec == InitWP /\ [][Next]_vars

---------------------------------------------------------------------------
(* Claims about the WordPreprocessor, checked under Spec *)

\* a dict maps its n keys one-to-one onto 0..n-1
Contiguous(d) == Values(d) = 0..(Size(d) - 1)

WordIdsOf(sent) == IF char_feature THEN sent[2] ELSE sent

\* C3: fit, then transform of the same X and y, returns (every tag was seen), and
\* inverse_transform of the k-th tag-id list a transform returned gives back y[k]:
\* the same tags in the same order
C3_RoundTrip ==
  [][/\ (last.op = "fit" /\ last'.op = "transform" /\ last'.X = last.X /\ last'.y = last.y)
          => ~last'.raised
     /\ (last.op = "transform" /\ ~last.raised /\ last'.op = "inverse_transform"
          /\ \E k \in 1..Len(last.tags) : last'.y = last.tags[k])
          => /\ ~last'.raised
             /\ \A k \in 1..Len(last.tags) : last'.y = last.tags[k] => last'.tags = last.y[k]
    ]_vars

C3_Witness ==
  /\ last.op = "inverse_transform"
  /\ ~last.raised
  /\ last.y = <<1, 0>>
  /\ last.tags = <<"B", "O">>

\* C9: once fit has run, each vocabulary maps its tokens one-to-one onto 0..n-1,
\* UNK has index 0 in the word and the character vocabulary, and every word id a
\* transform returns is below the size of the word vocabulary
C9_VocabInvariant ==
  ~IsNone(vocab_word) =>
    /\ Contiguous(vocab_word) /\ Contiguous(vocab_char) /\ Contiguous(vocab_tag)
    /\ vocab_word[UNK] = 0 /\ vocab_char[UNK] = 0
    /\ (last.op = "transform" /\ ~last.raised) =>
          \A k \in 1..Len(last.sents) :
            \A i \in 1..Len(WordIdsOf(last.sents[k])) :
              WordIdsOf(last.sents[k])[i] \in 0..(Size(vocab_word) - 1)

\* a transform of two words, the first out of the vocabulary, the second in it
C9_Witness ==
  /\ last.op = "transform" /\ ~last.raised
  /\ Size(vocab_word) >= 2
  /\ \E k \in 1..Len(last.sents) :
       /\ Len(last.X[k]) = 2
       /\ Normalized(lowercase, num_norm, last.X[k][1]) \notin DOMAIN vocab_word
       /\ WordIdsOf(last.sents[k])[1] = 0
       /\ WordIdsOf(last.sents[k])[2] > 0

NormWords(S) == {Normalized(lowercase, num_norm, w) : w \in S}

\* C10: transform and inverse_transform leave the three vocabularies as they
\* were, also when they raise; fit leaves vocabularies whose tokens are UNK and
\* those of its own X, y and vocab_init, and no other
C10_OnlyFitWrites ==
  [][/\ last'.op \in {"transform", "inverse_transform"} => vocabs' = vocabs
     /\ last'.op = "fit" =>
          LET ws == NormWords(Elems(Flatten(last'.X)) \cup vocab_init)
          IN /\ DOMAIN vocab_word' = {UNK} \cup ws
             /\ DOMAIN vocab_char' =
                  {UNK} \cup (IF char_feature THEN UNION {{<<w[i]>> : i \in 1..Len(w)} : w \in ws} ELSE {})
             /\ DOMAIN vocab_tag' = Elems(Flatten(last'.y))
    ]_vars

\* a transform that raised on a tag fit had not seen
C10_Witness ==
  /\ last.op = "transform" /\ last.raised
  /\ ~IsNone(vocab_word)
  /\ \E t \in Elems(Flatten(last.y)) : t \notin DOMAIN vocab_tag

---------------------------------------------------------------------------
(* The module's functions.  A behaviour is one call: the initial state      *)
(* holds the call and its arguments, drawn from small sets, and the action  *)
(* of that function evaluates it and adds what it returned.  No             *)
(* WordPreprocessor is involved: its fields stay as the constructor's       *)
(* defaults leave them.                                                     *)

NoPreprocessor ==
  /\ lowercase = TRUE
  /\ num_norm = TRUE
  /\ char_feature = TRUE
  /\ vocab_init = {}
  /\ vocab_word = None
  /\ vocab_char = None
  /\ vocab_tag = None

Called(op) == last.op = op /\ last.phase = "call"
Returned(op) == last.op = op /\ last.phase = "return"

---------------------------------------------------------------------------
(* pad_words and to_onehot *)

\* the number of sequences of a batch, their length, the ids and config.num_steps
MaxRows == 2
MaxSeqLen == 3
MaxId == 2
MaxSteps == 2

\* keras' sequence.pad_sequences(seqs, maxlen=maxlen, padding='post'): truncating
\* is left at its default, 'pre', which keeps the last maxlen ids (s[-maxlen:]);
\* the ids are written from the front of a row of zeros
pad_sequences(seqs, maxlen) ==
  [k \in 1..Len(seqs) |->
     LET s == seqs[k]
         trunc == IF Len(s) > maxlen THEN SubSeq(s, Len(s) - maxlen + 1, Len(s)) ELSE s
     IN [i \in 1..maxlen |-> IF i <= Len(trunc) THEN trunc[i] ELSE 0]]

pad_words(xs, num_steps) == pad_sequences(xs, num_steps)

\* keras' to_categorical(y, num_classes): one row of one-hot vectors
to_categorical(y, num_classes) ==
  [i \in 1..Len(y) |-> [j \in 1..num_classes |-> IF j - 1 = y[i] THEN 1 ELSE 0]]

\* to_categorical indexes a row of width num_classes with the id
ToOnehotRaises(ys, num_steps, ntags) ==
  \E k \in 1..Len(ys) : \E i \in 1..num_steps : pad_sequences(ys, num_steps)[k][i] >= ntags

to_onehot(ys, num_steps, ntags) ==
  LET padded == pad_sequences(ys, num_steps)
  IN [k \in 1..Len(padded) |-> to_categorical(padded[k], ntags)]

IdSeqs == UNION {[1..n -> 0..MaxId] : n \in 0..MaxSeqLen}
Batches == UNION {[1..n -> IdSeqs] : n \in 0..MaxRows}

InitPad ==
  /\ NoPreprocessor
  /\ \/ \E xs \in Batches, num_steps \in 1..MaxSteps :
          last = [op |-> "pad_words", phase |-> "call", xs |-> xs, num_steps |-> num_steps]
     \/ \E ys \in Batches, num_steps \in 1..MaxSteps, ntags \in 1..(MaxId + 1) :
          last = [op |-> "to_onehot", phase |-> "call", ys |-> ys, num_steps |-> num_steps,
                  ntags |-> ntags]

PadWords ==
  /\ Called("pad_words")
  /\ last' = [op |-> "pad_words", phase |-> "return", xs |-> last.xs, num_steps |-> last.num_steps,
              ret |-> pad_words(last.xs, last.num_steps)]
  /\ UNCHANGED <<config, vocabs>>

ToOnehot ==
  /\ Called("to_onehot")
  /\ last' = IF ToOnehotRaises(last.ys, last.num_steps, last.ntags)
             THEN [op |-> "to_onehot", phase |-> "return", ys |-> last.ys,
                   num_steps |-> last.num_steps, ntags |-> last.ntags, raised |-> TRUE]
             ELSE [op |-> "to_onehot", phase |-> "return", ys |-> last.ys,
                   num_steps |-> last.num_steps, ntags |-> last.ntags, raised |-> FALSE,
                   ret |-> to_onehot(last.ys, last.num_steps, last.ntags)]
  /\ UNCHANGED <<config, vocabs>>

NextPad == PadWords \/ ToOnehot

SpecPad == InitPad /\ [][NextPad]_vars

RECURSIVE Sum(_)
Sum(v) == IF v = <<>> THEN 0 ELSE Head(v) + Sum(Tail(v))

Min(a, b) == IF a < b THEN a ELSE b

\* C1: every row pad_words returns has length num_steps; a sentence shorter than
\* num_steps is followed by zeros, a longer one is cut to its first num_steps ids
C1_PadKeepsFirst ==
  Returned("pad_words") =>
    /\ Len(last.ret) = Len(last.xs)
    /\ \A k \in 1..Len(last.xs) :
         /\ Len(last.ret[k]) = last.num_steps
         /\ \A i \in 1..last.num_steps :
              last.ret[k][i] = IF i <= Len(last.xs[k]) THEN last.xs[k][i] ELSE 0

\* C4: for label ids below ntags, the vector to_onehot returns at [k][i], i below
\* min(len(ys[k]), num_steps), has width ntags, sums to 1 and has its 1 at
\* ys[k][i], also when ys[k] is longer than num_steps
C4_OnehotAtSamePosition ==
  (/\ Returned("to_onehot")
   /\ \A k \in 1..Len(last.ys) : \A i \in 1..Len(last.ys[k]) : last.ys[k][i] < last.ntags) =>
    /\ ~last.raised
    /\ \A k \in 1..Len(last.ys) :
         \A i \in 1..Min(Len(last.ys[k]), last.num_steps) :
           /\ Len(last.ret[k][i]) = last.ntags
           /\ Sum(last.ret[k][i]) = 1
           /\ last.ret[k][i][last.ys[k][i] + 1] = 1

---------------------------------------------------------------------------
(* get_processing_word *)

\* an argument that is None or a dict
NoDict == [none |-> TRUE, d |-> <<>>]
Dict(d) == [none |-> FALSE, d |-> d]

\* f, lines 37-39
ProcNormalize(lc, word) == digit_to_zero(IF lc THEN Lower(word) ELSE word)

\* f, lines 42-47: Python evaluates the default vocab_chars[UNK] before it calls
\* get, so a character that is in the vocabulary needs UNK in it too
CharIdsRaises(vocab_chars, word) ==
  \E i \in 1..Len(word) : <<word[i]>> \in DOMAIN vocab_chars /\ UNK \notin DOMAIN vocab_chars

RECURSIVE CharIds(_, _)
CharIds(vocab_chars, word) ==
  IF word = <<>> THEN <<>>
  ELSE (IF <<Head(word)>> \in DOMAIN vocab_chars THEN <<vocab_chars[<<Head(word)>>]>> ELSE <<>>)
         \o CharIds(vocab_chars, Tail(word))

\* f, line 51: vocab_words.get(word, vocab_words.get(UNK, vocab_words[PAD])); the
\* innermost default, vocab_words[PAD], is evaluated first
WordIdRaises(vocab_words, word) == PAD \notin DOMAIN vocab_words

WordId(vocab_words, word) ==
  IF word \in DOMAIN vocab_words THEN vocab_words[word]
  ELSE IF UNK \in DOMAIN vocab_words THEN vocab_words[UNK]
  ELSE vocab_words[PAD]

\* the function f that get_processing_word(vocab_words, vocab_chars, lowercase,
\* use_char) returns, applied to word0
f(vocab_words, vocab_chars, lc, use_char, word0) ==
  LET word == ProcNormalize(lc, word0)
      chars == ~vocab_chars.none /\ use_char
  IN IF \/ chars /\ CharIdsRaises(vocab_chars.d, word)
        \/ ~vocab_words.none /\ WordIdRaises(vocab_words.d, word)
     THEN [raised |-> TRUE]
     ELSE [raised |-> FALSE,
           tuple |-> chars,
           char_ids |-> IF chars THEN CharIds(vocab_chars.d, word) ELSE <<>>,
           word |-> IF vocab_words.none THEN word ELSE WordId(vocab_words.d, word)]

\* the vocabularies handed to get_processing_word: each key has its own index
WordIndex == (UNK :> 0) @@ (PAD :> 1) @@ (<<"a", "0">> :> 2)
CharIndex == (UNK :> 0) @@ (<<"a">> :> 1) @@ (<<"0">> :> 2)
WordVocabs == {NoDict} \cup {Dict([k \in K |-> WordIndex[k]]) : K \in SUBSET DOMAIN WordIndex}
CharVocabs == {NoDict} \cup {Dict([k \in K |-> CharIndex[k]]) : K \in SUBSET DOMAIN CharIndex}
ProcWords == {<<"A", "F1">>, <<"a", "0">>, <<"b", "a">>, UNK}

InitWord ==
  /\ NoPreprocessor
  /\ \E vw \in WordVocabs, vc \in CharVocabs, lc \in BOOLEAN, uc \in BOOLEAN, w \in ProcWords :
       last = [op |-> "f", phase |-> "call", vocab_words |-> vw, vocab_chars |-> vc,
               lowercase |-> lc, use_char |-> uc, word |-> w]

ProcessingWord ==
  /\ Called("f")
  /\ last' = [op |-> "f", phase |-> "return", vocab_words |-> last.vocab_words,
              vocab_chars |-> last.vocab_chars, lowercase |-> last.lowercase,
              use_char |-> last.use_char, word |-> last.word,
              ret |-> f(last.vocab_words, last.vocab_chars, last.lowercase, last.use_char, last.word)]
  /\ UNCHANGED <<config, vocabs>>

NextWord == ProcessingWord

SpecWord == InitWord /\ [][NextWord]_vars

\* C2: with a word vocabulary V that defines UNK (and no character vocabulary), f
\* never raises, whether or not V defines PAD: it returns V[normalized word] when
\* that is a key of V and V[UNK] otherwise
C2_UnkFallbackNeverRaises ==
  (/\ Returned("f")
   /\ ~last.vocab_words.none /\ last.vocab_chars.none
   /\ UNK \in DOMAIN last.vocab_words.d) =>
    LET V == last.vocab_words.d
        w == ProcNormalize(last.lowercase, last.word)
    IN /\ ~last.ret.raised
       /\ last.ret.word = IF w \in DOMAIN V THEN V[w] ELSE V[UNK]

\* the characters of a word that are keys of C, as ids, in order
KnownCharIds(C, w) ==
  LET known == SelectSeq([i \in 1..Len(w) |-> <<w[i]>>], LAMBDA c : c \in DOMAIN C)
  IN [i \in 1..Len(known) |-> C[known[i]]]

\* C5: with use_char and a character vocabulary C (and no word vocabulary), f
\* never raises, whether or not C holds UNK, and the char ids it returns are those
\* of the characters of the normalized word that are keys of C, in order
C5_UnknownCharsDropped ==
  (/\ Returned("f")
   /\ last.use_char /\ ~last.vocab_chars.none /\ last.vocab_words.none) =>
    /\ ~last.ret.raised
    /\ last.ret.tuple
    /\ last.ret.char_ids = KnownCharIds(last.vocab_chars.d, ProcNormalize(last.lowercase, last.word))

---------------------------------------------------------------------------
(* The vocabulary files: build_vocab and load_vocab *)

\* a file is the sequence of its lines, each ending in "\n"
Whitespace == {" ", "\t", "\n"}

\* str.rstrip(): the trailing whitespace goes
RECURSIVE rstrip(_)
rstrip(w) == IF w # <<>> /\ w[Len(w)] \in Whitespace THEN rstrip(SubSeq(w, 1, Len(w) - 1)) ELSE w

\* load_vocab's func, line 159: {w.rstrip(): i for i, w in enumerate(f)}; a key
\* that comes again keeps the later index
RECURSIVE ReadLines(_, _, _)
ReadLines(lines, i, v) ==
  IF i > Len(lines) THEN v ELSE ReadLines(lines, i + 1, Put(v, rstrip(lines[i]), i - 1))

func(lines) == ReadLines(lines, 1, <<>>)

\* load_vocab, lines 163-168
load_vocab(dir) == [word |-> func(dir.words), char |-> func(dir.chars), tag |-> func(dir.tags)]

\* anago.data_utils.write_vocab: the tokens, one per line, in the order given
write_vocab(tokens) == [k \in 1..Len(tokens) |-> tokens[k] \o <<"\n">>]

\* get_vocabs, lines 98-105: the words and the tags of the datasets
RECURSIVE get_vocabs(_)
get_vocabs(datasets) ==
  IF datasets = <<>> THEN [words |-> {}, tags |-> {}]
  ELSE LET rest == get_vocabs(Tail(datasets))
       IN [words |-> Elems(Flatten(XOf(Head(datasets)))) \cup rest.words,
           tags |-> Elems(Flatten(YOf(Head(datasets)))) \cup rest.tags]

\* get_char_vocab, lines 115-120
get_char_vocab(dataset) ==
  UNION {{<<w[i]>> : i \in 1..Len(w)} : w \in Elems(Flatten(XOf(dataset)))}

\* build_vocab, lines 135-141: the three sets it hands to write_vocab
BuildSets(train, valid, test, vocab_glove) ==
  LET v == get_vocabs(<<train, valid, test>>)
  IN [word |-> ((v.words \cap vocab_glove) \cup {UNK}) \cup {NUM},
      char |-> get_char_vocab(train),
      tag |-> {<<t>> : t \in v.tags}]

\* every list of distinct tokens of S
DistinctLists(S) == UNION {Perms(T) : T \in SUBSET S}

VocabTokens == {<<"a">>, <<"a", " ">>, <<" ">>, <<"b">>}
GloveVocabs == SUBSET {<<"A", "1">>, <<"a", "1">>, <<"a", "0">>}

InitVocab ==
  /\ NoPreprocessor
  /\ \/ \E ws \in DistinctLists(VocabTokens), cs \in DistinctLists({<<"a">>, <<" ">>}),
           ts \in DistinctLists({<<"B">>, <<"O">>}) :
          last = [op |-> "load_vocab", phase |-> "call",
                  tokens |-> [word |-> ws, char |-> cs, tag |-> ts],
                  dir |-> [words |-> write_vocab(ws), chars |-> write_vocab(cs),
                           tags |-> write_vocab(ts)]]
     \/ \E train \in Corpora, valid \in CorporaOf(1), test \in CorporaOf(1),
           vocab_glove \in GloveVocabs :
          last = [op |-> "build_vocab", phase |-> "call", train |-> train, valid |-> valid,
                  test |-> test, vocab_glove |-> vocab_glove]

LoadVocab ==
  /\ Called("load_vocab")
  /\ last' = [op |-> "load_vocab", phase |-> "return", tokens |-> last.tokens, dir |-> last.dir,
              ret |-> load_vocab(last.dir)]
  /\ UNCHANGED <<config, vocabs>>

\* build_vocab: each set is written in the order its iteration yields, then read
BuildVocab ==
  /\ Called("build_vocab")
  /\ LET sets == BuildSets(last.train, last.valid, last.test, last.vocab_glove)
     IN \E ws \in Perms(sets.word), cs \in Perms(sets.char), ts \in Perms(sets.tag) :
          last' = [op |-> "build_vocab", phase |-> "return", train |-> last.train,
                   valid |-> last.valid, test |-> last.test, vocab_glove |-> last.vocab_glove,
                   written |-> sets,
                   ret |-> load_vocab([words |-> write_vocab(ws), chars |-> write_vocab(cs),
                                       tags |-> write_vocab(ts)])]
  /\ UNCHANGED <<config, vocabs>>

NextVocab == LoadVocab \/ BuildVocab

SpecVocab == InitVocab /\ [][NextVocab]_vars

\* the mapping read from a file agrees with the tokens written to it: the tokens
\* are its keys, each with its line number, and the indices are 0..n-1
ReadBack(v, tokens) ==
  /\ DOMAIN v = Elems(tokens)
  /\ \A k \in 1..Len(tokens) : v[tokens[k]] = k - 1
  /\ Size(v) = Len(tokens)
  /\ Values(v) = 0..(Len(tokens) - 1)

\* C6: distinct tokens written one per line are read back by load_vocab as a
\* mapping of exactly those tokens to their line numbers, whatever the tokens
\* are, tokens that are or end with whitespace included
C6_VocabRoundTrip ==
  Returned("load_vocab") =>
    /\ ReadBack(last.ret.word, last.tokens.word)
    /\ ReadBack(last.ret.char, last.tokens.char)
    /\ ReadBack(last.ret.tag, last.tokens.tag)

\* C7: the word vocabulary build_vocab writes is the lowercased words of the train,
\* valid and test sentences that the embedding vocabulary holds, and UNK and NUM
C7_WordsLowercased ==
  Returned("build_vocab") =>
    LET corpus == get_vocabs(<<last.train, last.valid, last.test>>).words
    IN last.written.word = ({Lower(w) : w \in corpus} \cap last.vocab_glove) \cup {UNK, NUM}

---------------------------------------------------------------------------
(* load_word_embeddings *)

\* the number of lines of an embedding file
MaxLines == 2

\* str.strip(): the whitespace at both ends goes
RECURSIVE lstrip(_)
lstrip(w) == IF w # <<>> /\ Head(w) \in Whitespace THEN lstrip(Tail(w)) ELSE w

strip(w) == lstrip(rstrip(w))

\* str.split(' '): the pieces between single spaces
RECURSIVE SplitFrom(_, _, _)
SplitFrom(w, i, piece) ==
  IF i > Len(w) THEN <<piece>>
  ELSE IF w[i] = " " THEN <<piece>> \o SplitFrom(w, i + 1, <<>>)
  ELSE SplitFrom(w, i + 1, Append(piece, w[i]))

split(w) == SplitFrom(w, 1, <<>>)

\* float(x) of the numerals an embedding file of the model holds
float(x) == CASE x = <<"2">> -> 2 [] x = <<"-", "1">> -> -1 [] OTHER -> 0

\* lines 182-184: the word of a line and its vector
ParseLine(line) ==
  LET pieces == split(strip(line))
  IN [word |-> pieces[1], embedding |-> [i \in 1..(Len(pieces) - 1) |-> float(pieces[i + 1])]]

\* line 187: the row of the word takes the vector
StoreRowOnce(embeddings, word_idx, embedding) ==
  IF \A j \in 1..Len(embeddings[word_idx]) : embeddings[word_idx][j] = 0
  THEN [embeddings EXCEPT ![word_idx] = embedding]
  ELSE embeddings
StoreRow(embeddings, word_idx, embedding) == [embeddings EXCEPT ![word_idx] = embedding]

\* lines 181-187, from line i on
RECURSIVE LoadLines(_, _, _, _)
LoadLines(vocab, lines, i, embeddings) ==
  IF i > Len(lines) THEN embeddings
  ELSE LET p == ParseLine(lines[i])
       IN LoadLines(vocab, lines, i + 1,
                    IF p.word \in DOMAIN vocab
                    THEN StoreRow(embeddings, vocab[p.word], p.embedding)
                    ELSE embeddings)

\* load_word_embeddings: the rows are numbered from 0
load_word_embeddings(vocab, lines, dim) ==
  LoadLines(vocab, lines, 1, [r \in 0..(Size(vocab) - 1) |-> [j \in 1..dim |-> 0]])

\* an embedding file: a word and dim numerals a line, a space before each numeral
Numeral(x) == CASE x = 2 -> <<"2">> [] OTHER -> <<"-", "1">>

RECURSIVE FormatVector(_)
FormatVector(v) == IF v = <<>> THEN <<>> ELSE <<" ">> \o Numeral(Head(v)) \o FormatVector(Tail(v))

FormatLine(e) == e.word \o FormatVector(e.embedding) \o <<"\n">>

EmbWords == {UNK, <<"c", "a">>, <<"d">>}
FileWords == {<<"c", "a">>, <<"d">>, <<"e">>}
EmbValues == {-1, 2}
Dims == {1, 2}

\* the vocabularies: each maps its words one-to-one onto 0..n-1
EmbVocabs == UNION {{[w \in K |-> CHOOSE i \in 0..(Cardinality(K) - 1) : p[i + 1] = w] : p \in Perms(K)} : K \in SUBSET EmbWords}

Entries(dim) == [word : FileWords, embedding : [1..dim -> EmbValues]]
EntryLists(dim) == UNION {[1..n -> Entries(dim)] : n \in 0..MaxLines}

InitEmb ==
  /\ NoPreprocessor
  /\ \E vocab \in EmbVocabs, dim \in Dims :
       \E entries \in EntryLists(dim) :
         last = [op |-> "load_word_embeddings", phase |-> "call", vocab |-> vocab, dim |-> dim,
                 entries |-> entries,
                 lines |-> [k \in 1..Len(entries) |-> FormatLine(entries[k])]]

LoadWordEmbeddings ==
  /\ Called("load_word_embeddings")
  /\ last' = [op |-> "load_word_embeddings", phase |-> "return", vocab |-> last.vocab,
              dim |-> last.dim, entries |-> last.entries, lines |-> last.lines,
              ret |-> load_word_embeddings(last.vocab, last.lines, last.dim)]
  /\ UNCHANGED <<config, vocabs>>

NextEmb == LoadWordEmbeddings

SpecEmb == InitEmb /\ [][NextEmb]_vars

\* the lines of a file that have word w
LinesOf(entries, w) == {k \in 1..Len(entries) : entries[k].word = w}

Max(S) == CHOOSE m \in S : \A x \in S : x <= m

====
